---- MODULE Spec2Model ----
(***************************************************************************)
(* MindCare.py: the emotional-support conversation pipeline.               *)
(*                                                                         *)
(* State: the interactive loop of main (pc), the locals of run_pipeline /  *)
(* generate_response, the logs/ directory (logsDir, files) and the wall    *)
(* clock.  Texts the program inspects character by character               *)
(* (extract_integer, is_warning_signal) are sequences of one-character     *)
(* strings; other texts are opaque strings.  The Korean literals of the    *)
(* source are written in ASCII (the emotion labels by their English        *)
(* gloss, the termination phrases romanised).                              *)
(***************************************************************************)
EXTENDS Integers, Sequences, FiniteSets, TLC

VARIABLES pc, username, user_input, cleaned_input, sentiment_score,
          previous_logs, limit, prompt, response, logsDir, files, now,
          error, output, riskCalls, synthCalls, warning, raw_reply, lastTurn,
          peer

vars == <<pc, username, user_input, cleaned_input, sentiment_score,
          previous_logs, limit, prompt, response, logsDir, files, now,
          error, output, riskCalls, synthCalls, warning, raw_reply, lastTurn,
          peer>>

(***************************************************************************)
(* Bounds of the model.                                                    *)
(***************************************************************************)
\* the wall clock, read in whole seconds, runs over 0..MaxClock
MaxClock == 1
\* load_previous_logs applied on its own: the files of the directory and the
\* limits tried
MaxFiles == 3
MaxLimit == 3
\* generate_response applied on its own: the scores tried are 0..MaxScore
MaxScore == 8

(***************************************************************************)
(* Values.                                                                 *)
(***************************************************************************)
\* Python's None, for a sentiment score and for a username hash
NoneScore == -1
NoneHash == "None"

\* what input(...).strip() can give as the user name; "" is "no name"
Names == {"", "kim", "lee"}

\* the lines a user can type at the prompt
Inputs == {"scared", "fine", "annyeong", "BYE"}

\* texts the oracle can return to the classification request
ClassReplies ==
    { <<"1">>, <<"a", "1">>, <<"1", " ", "7">>, <<"n", "o">>, <<"9">>, <<"1", "0">>, <<"0">> }

\* texts the oracle can return to the risk question
RiskReplies ==
    { <<"t", "r", "u", "e">>, <<"f", "a", "l", "s", "e">>, <<"T", "r", "u", "e", ".">>,
      <<>>, <<"t", "r", "u">> }

\* texts the oracle can return to the synthesis request / the clean-up request
Replies == {"r1"}
Cleaned == {"c1"}

\* emotion_mapping
emotion_mapping ==
    [c \in 1..7 |->
        CASE c = 1 -> "fear"
          [] c = 2 -> "surprise"
          [] c = 3 -> "neutral"
          [] c = 4 -> "disgust"
          [] c = 5 -> "anger"
          [] c = 6 -> "sadness"
          [] c = 7 -> "happiness"]

\* emotion_mapping.get(score, "unknown")
dominant_emotion(score) ==
    IF score \in DOMAIN emotion_mapping THEN emotion_mapping[score] ELSE "unknown"

(***************************************************************************)
(* extract_integer: int of the first run of digits, None without digits.   *)
(***************************************************************************)
Digits == {"0", "1", "2", "3", "4", "5", "6", "7", "8", "9"}

DigitVal(ch) ==
    CASE ch = "0" -> 0 [] ch = "1" -> 1 [] ch = "2" -> 2 [] ch = "3" -> 3
      [] ch = "4" -> 4 [] ch = "5" -> 5 [] ch = "6" -> 6 [] ch = "7" -> 7
      [] ch = "8" -> 8 [] ch = "9" -> 9

\* the end of the run of digits that starts at i (re's greedy \d+)
RECURSIVE RunEnd(_, _)
RunEnd(text, i) ==
    IF i < Len(text) /\ text[i + 1] \in Digits THEN RunEnd(text, i + 1) ELSE i

\* int(...) of the digits text[i..j]
RECURSIVE IntOf(_, _, _)
IntOf(text, i, j) ==
    IF j < i THEN 0 ELSE 10 * IntOf(text, i, j - 1) + DigitVal(text[j])

extract_integer(text) ==
    LET starts == {i \in 1..Len(text) : text[i] \in Digits}
    IN  IF starts = {} THEN NoneScore
        ELSE LET i == CHOOSE s \in starts : \A o \in starts : s <= o
             IN  IntOf(text, i, RunEnd(text, i))

\* line 158 left out: the score is passed on as parsed
default_neutral_missing(score) == score

\* run_pipeline, line 158: None becomes neutral
default_neutral(score) == IF score = NoneScore THEN 3 ELSE score

\* is_negative_emotion with sadness left out of the list
is_negative_emotion_no_sadness(score) == score \in {1, 4, 5}

\* is_negative_emotion
is_negative_emotion(score) == score \in {1, 4, 5, 6}

(***************************************************************************)
(* is_warning_signal's reading of the answer: "true" in result.lower()     *)
(***************************************************************************)
LowerChar(ch) ==
    CASE ch = "T" -> "t" [] ch = "R" -> "r" [] ch = "U" -> "u" [] ch = "E" -> "e"
      [] OTHER -> ch

Lower(text) == [i \in 1..Len(text) |-> LowerChar(text[i])]

Contains(text, word) ==
    \E i \in 0..(Len(text) - Len(word)) :
        \A j \in 1..Len(word) : text[i + j] = word[j]

warning_answer(result) == Contains(Lower(result), <<"t", "r", "u", "e">>)

(***************************************************************************)
(* main's reading of a line: user_input.lower() in [...]                   *)
(***************************************************************************)
LowerInput(line) == IF line = "BYE" THEN "bye" ELSE line

Termination ==
    {"geumanhalgeyo", "sugohaesseoyo", "gomawoyo", "annyeong", "jongryo", "bye"}

\* the lines that start a turn
TurnInputs == {line \in Inputs : LowerInput(line) \notin Termination}

(***************************************************************************)
(* encrypt_name: the SHA-256 hex digest of the name (a fixed table over    *)
(* the names of the model; distinct names have distinct digests).          *)
(***************************************************************************)
encrypt_name(name) ==
    CASE name = "kim" -> "5f2a"
      [] name = "lee" -> "c81d"
      [] name = "" -> "e3b0"

\* log_interaction, line 76: encrypt_name(username) if username else None
username_hash(name) == IF name # "" THEN encrypt_name(name) ELSE NoneHash

(***************************************************************************)
(* The logs/ directory.  A file is named by its timestamp; its content is  *)
(* the dumped record, or text json.load cannot parse (json = FALSE).       *)
(***************************************************************************)
\* datetime.now().strftime("%Y%m%d_%H%M%S"): the clock is read to the second,
\* and the text is of fixed width, so its lexical order is the order of the
\* seconds.  A timestamp is modelled by the number of its second.
Stamps == 0..MaxClock

Corrupt == [json |-> FALSE]

\* log_data with the texts of the two fields exchanged
log_data_swapped(timestamp, input, score, text, name) ==
    [json |-> TRUE,
     timestamp |-> timestamp,
     sentiment_score |-> emotion_mapping[score],
     response |-> input,
     user_input |-> text,
     username_hash |-> username_hash(name)]

\* log_data of log_interaction
log_data(timestamp, input, score, text, name) ==
    [json |-> TRUE,
     timestamp |-> timestamp,
     sentiment_score |-> emotion_mapping[score],
     response |-> text,
     user_input |-> input,
     username_hash |-> username_hash(name)]

\* open(f"logs/{timestamp}.json", "w") and json.dump: the file is created or
\* replaced
write_file(fs, filename, data) ==
    [f \in DOMAIN fs \cup {filename} |-> IF f = filename THEN data ELSE fs[f]]

NoFiles == [f \in {} |-> Corrupt]

(***************************************************************************)
(* load_previous_logs                                                      *)
(***************************************************************************)
DefaultLimit == 3

MaxOf(S) == CHOOSE m \in S : \A o \in S : o <= m
MinOf(S) == CHOOSE m \in S : \A o \in S : m <= o

NoLogs == [k \in {} |-> [input |-> "", response |-> ""]]

\* logs[timestamp] = {...}
dict_put(logs, key, value) ==
    [k \in DOMAIN logs \cup {key} |-> IF k = key THEN value ELSE logs[k]]

\* dict(sorted(logs.items())): the entries by ascending timestamp
RECURSIVE sorted_items(_)
sorted_items(logs) ==
    IF DOMAIN logs = {} THEN <<>>
    ELSE LET k == MinOf(DOMAIN logs)
         IN  <<[timestamp |-> k, input |-> logs[k].input, response |-> logs[k].response]>>
             \o sorted_items([j \in DOMAIN logs \ {k} |-> logs[j]])

\* line 108: the scan stops once the dict holds limit entries
limit_reached(logs, lim) == Cardinality(DOMAIN logs) >= lim

\* lines 95-109: the loop over the file names not yet visited, newest first
RECURSIVE scan_files(_, _, _, _, _)
scan_files(fs, todo, hash, lim, logs) ==
    IF todo = {} THEN [err |-> "none", logs |-> sorted_items(logs)]
    ELSE LET filename == MaxOf(todo)
             data == fs[filename]
         IN  IF ~data.json
             THEN [err |-> "JSONDecodeError", logs |-> <<>>]
             ELSE IF data.username_hash = hash
             THEN LET logs2 == dict_put(logs, data.timestamp,
                                        [input |-> data.user_input,
                                         response |-> data.response])
                  IN  IF limit_reached(logs2, lim)
                      THEN [err |-> "none", logs |-> sorted_items(logs2)]
                      ELSE scan_files(fs, todo \ {filename}, hash, lim, logs2)
             ELSE scan_files(fs, todo \ {filename}, hash, lim, logs)

\* load_previous_logs comparing the stored hash with the name itself
load_previous_logs_unhashed(fs, dirExists, name, lim) ==
    IF name = "" THEN [err |-> "none", logs |-> <<>>]
    ELSE IF ~dirExists THEN [err |-> "FileNotFoundError", logs |-> <<>>]
    ELSE scan_files(fs, DOMAIN fs, name, lim, NoLogs)

\* load_previous_logs without the test of line 88, the hash taken as
\* log_interaction takes it
load_previous_logs_anonymous(fs, dirExists, name, lim) ==
    IF ~dirExists THEN [err |-> "FileNotFoundError", logs |-> <<>>]
    ELSE scan_files(fs, DOMAIN fs, username_hash(name), lim, NoLogs)

load_previous_logs(fs, dirExists, name, lim) ==
    IF name = "" THEN [err |-> "none", logs |-> <<>>]
    ELSE IF ~dirExists THEN [err |-> "FileNotFoundError", logs |-> <<>>]
    ELSE scan_files(fs, DOMAIN fs, encrypt_name(name), lim, NoLogs)

(***************************************************************************)
(* generate_response, lines 128-137: the instruction of the prompt          *)
(***************************************************************************)
\* the policy with the detector's answer ignored: any negative emotion takes
\* the crisis instruction
instruction_always_crisis(score, warn) ==
    IF is_negative_emotion(score) THEN "crisis" ELSE "empathy"

instruction(score, warn) ==
    IF is_negative_emotion(score)
    THEN IF warn THEN "crisis" ELSE "negative"
    ELSE "empathy"

\* lines 139-143: the prompt sent to the oracle
full_prompt ==
    [context |-> previous_logs,
     instruction |-> prompt,
     emotion |-> dominant_emotion(sentiment_score),
     input |-> user_input]

(***************************************************************************)
(* The program: main's loop, one action per step of a turn.                *)
(***************************************************************************)
\* a second session of the program on the same logs/ directory: not started
PeerIdle ==
    [pc |-> "idle", username |-> "", user_input |-> "", sentiment_score |-> NoneScore,
     response |-> ""]

\* the locals of a turn, before the turn and after it
NoTurn ==
    /\ user_input' = ""
    /\ cleaned_input' = ""
    /\ sentiment_score' = NoneScore
    /\ previous_logs' = <<>>
    /\ prompt' = ""
    /\ response' = ""
    /\ warning' = FALSE
    /\ riskCalls' = 0
    /\ synthCalls' = 0
    /\ raw_reply' = <<>>

\* the turn this session completed last: none yet
NoLast == [input |-> "", response |-> ""]

\* an exception nobody catches: main has no handler, the traceback is printed
\* and the process ends
raise(kind) ==
    /\ pc' = "crashed"
    /\ error' = kind
    /\ output' = "traceback"
    /\ lastTurn' = NoLast
    /\ NoTurn

Init ==
    /\ pc = "init"
    /\ username = ""
    /\ user_input = ""
    /\ cleaned_input = ""
    /\ sentiment_score = NoneScore
    /\ previous_logs = <<>>
    /\ limit = DefaultLimit
    /\ prompt = ""
    /\ response = ""
    /\ warning = FALSE
    /\ logsDir = FALSE
    /\ files = NoFiles
    /\ now = 0
    /\ error = "none"
    /\ output = "none"
    /\ riskCalls = 0
    /\ synthCalls = 0
    /\ raw_reply = <<>>
    /\ lastTurn = NoLast
    /\ peer = PeerIdle

\* main, lines 181-182: the program is started (again); the name is read
main ==
    /\ pc \in {"init", "done", "crashed"}
    /\ \E name \in Names : username' = name
    /\ pc' = "prompt"
    /\ error' = "none"
    /\ output' = "welcome"
    /\ lastTurn' = NoLast
    /\ NoTurn
    /\ UNCHANGED <<limit, peer, logsDir, files, now>>

\* main, lines 185-192: a line is read; a termination phrase takes the
\* farewell path, any other line starts run_pipeline
read_input ==
    /\ pc = "prompt"
    /\ \E line \in Inputs :
        /\ user_input' = line
        /\ pc' = IF LowerInput(line) \in Termination THEN "farewell" ELSE "preprocess"
    /\ UNCHANGED <<username, cleaned_input, sentiment_score, previous_logs, limit, peer,
                   prompt, response, warning, logsDir, files, now, error, output, lastTurn, raw_reply,
                   riskCalls, synthCalls>>

\* the farewell logged like a turn
generate_farewell_message_logged ==
    /\ pc = "farewell"
    /\ pc' = "done"
    /\ output' = "farewell"
    /\ lastTurn' = NoLast
    /\ NoTurn
    /\ logsDir' = TRUE
    /\ files' = write_file(files, now, log_data(now, user_input, 3, "bye", username))
    /\ UNCHANGED <<username, limit, peer, now, error>>

\* generate_farewell_message and main, lines 188-190
generate_farewell_message ==
    /\ pc = "farewell"
    /\ pc' = "done"
    /\ output' = "farewell"
    /\ lastTurn' = NoLast
    /\ NoTurn
    /\ UNCHANGED <<username, limit, peer, logsDir, files, now, error>>

\* the failure of the synthesis call handled by logging the turn with an
\* empty reply before the error goes on
oracle_unavailable_logged ==
    /\ pc \in {"farewell", "preprocess", "classify", "risk", "synth"}
    /\ IF pc = "synth" /\ sentiment_score \in DOMAIN emotion_mapping
       THEN /\ logsDir' = TRUE
            /\ files' = write_file(files, now,
                                   log_data(now, user_input, sentiment_score, "",
                                            username))
       ELSE UNCHANGED <<logsDir, files>>
    /\ raise("OracleUnavailable")
    /\ UNCHANGED <<username, limit, peer, now>>

\* client.chat.completions.create raises (timeout, transport, auth) in the
\* call the program is about to make
oracle_unavailable ==
    /\ pc \in {"farewell", "preprocess", "classify", "risk", "synth"}
    /\ raise("OracleUnavailable")
    /\ UNCHANGED <<username, limit, peer, logsDir, files, now>>

\* preprocess_input_with_openai
preprocess_input_with_openai ==
    /\ pc = "preprocess"
    /\ \E text \in Cleaned : cleaned_input' = text
    /\ pc' = "classify"
    /\ UNCHANGED <<username, user_input, sentiment_score, previous_logs, limit, peer,
                   prompt, response, warning, logsDir, files, now, error, output, lastTurn, raw_reply,
                   riskCalls, synthCalls>>

\* get_sentiment_score, and run_pipeline's line 158
get_sentiment_score ==
    /\ pc = "classify"
    /\ \E text \in ClassReplies :
        /\ raw_reply' = text
        /\ sentiment_score' = default_neutral(extract_integer(text))
    /\ cleaned_input' = ""
    /\ pc' = "context"
    /\ UNCHANGED <<username, user_input, previous_logs, limit, peer, prompt, response,
                   warning, logsDir, files, now, error, output, lastTurn, riskCalls,
                   synthCalls>>

\* the record of the turn written before the context is loaded and the reply
\* is made
load_context_after_log ==
    /\ pc = "context"
    /\ LET fs == IF sentiment_score \in DOMAIN emotion_mapping
                 THEN write_file(files, now,
                                 log_data(now, user_input, sentiment_score, "",
                                          username))
                 ELSE files
           r == load_previous_logs(fs, TRUE, username, DefaultLimit)
       IN  /\ files' = fs
           /\ logsDir' = TRUE
           /\ IF r.err # "none"
              THEN raise(r.err)
              ELSE /\ previous_logs' = r.logs
                   /\ IF is_negative_emotion(sentiment_score)
                      THEN pc' = "risk" /\ prompt' = prompt
                      ELSE pc' = "synth" /\ prompt' = instruction(sentiment_score, FALSE)
                   /\ UNCHANGED <<user_input, cleaned_input, sentiment_score,
                                  response, warning, error, output, lastTurn,
                                  raw_reply, riskCalls, synthCalls>>
    /\ UNCHANGED <<username, limit, peer, now>>

\* generate_response, lines 116-128 and 136-137: the context is loaded, then
\* the emotion decides whether the risk detector is asked
load_context ==
    /\ pc = "context"
    /\ LET r == load_previous_logs(files, logsDir, username, DefaultLimit)
       IN  IF r.err # "none"
           THEN raise(r.err)
           ELSE /\ previous_logs' = r.logs
                /\ IF is_negative_emotion(sentiment_score)
                   THEN pc' = "risk" /\ prompt' = prompt
                   ELSE pc' = "synth" /\ prompt' = instruction(sentiment_score, FALSE)
                /\ UNCHANGED <<user_input, cleaned_input, sentiment_score, response,
                               warning, error, output, lastTurn, raw_reply, riskCalls, synthCalls>>
    /\ UNCHANGED <<username, limit, peer, logsDir, files, now>>

\* is_warning_signal, and lines 129-135
is_warning_signal ==
    /\ pc = "risk"
    /\ \E result \in RiskReplies :
        /\ warning' = warning_answer(result)
        /\ prompt' = instruction(sentiment_score, warning_answer(result))
    /\ riskCalls' = riskCalls + 1
    /\ pc' = "synth"
    /\ UNCHANGED <<username, user_input, cleaned_input, sentiment_score,
                   previous_logs, limit, peer, response, logsDir, files, now, error,
                   output, lastTurn, raw_reply, synthCalls>>

\* generate_response, lines 139-149: the prompt is sent, the reply is returned
synthesize ==
    /\ pc = "synth"
    /\ \E text \in Replies : response' = text
    /\ synthCalls' = synthCalls + 1
    /\ pc' = "log"
    /\ UNCHANGED <<username, user_input, cleaned_input, sentiment_score,
                   previous_logs, limit, peer, prompt, warning, logsDir, files, now,
                   error, output, lastTurn, raw_reply, riskCalls>>

\* log_interaction, then run_pipeline returns and main prints the reply.
\* emotion_mapping[sentiment_score] raises KeyError for a score outside 1..7.
\* datetime.now() reads a second no earlier than the one read before.
log_interaction ==
    /\ pc = "log"
    /\ IF sentiment_score \notin DOMAIN emotion_mapping
       THEN /\ raise("KeyError")
            /\ UNCHANGED <<logsDir, files, now>>
       ELSE \E t \in now..MaxClock :
            /\ now' = t
            /\ logsDir' = TRUE
            /\ files' = write_file(files, t,
                                   log_data(t, user_input, sentiment_score,
                                            response, username))
            /\ pc' = "prompt"
            /\ output' = "reply"
            /\ error' = error
            /\ lastTurn' = [input |-> user_input, response |-> response]
            /\ NoTurn
    /\ UNCHANGED <<username, limit, peer>>

\* the storage failure caught and dropped inside run_pipeline: the response
\* is returned and printed although no record was written
storage_unavailable_swallowed ==
    /\ pc = "log"
    /\ sentiment_score \in DOMAIN emotion_mapping
    /\ \E t \in now..MaxClock :
        /\ now' = t
        /\ \/ ~logsDir /\ UNCHANGED <<logsDir, files>>
           \/ logsDir' = TRUE /\ UNCHANGED files
           \/ logsDir' = TRUE /\ files' = write_file(files, t, Corrupt)
    /\ pc' = "prompt"
    /\ output' = "reply"
    /\ error' = error
    /\ lastTurn' = [input |-> user_input, response |-> response]
    /\ NoTurn
    /\ UNCHANGED <<username, limit, peer>>

\* log_interaction when the storage fails (OSError): in os.makedirs, in open,
\* or in json.dump after open has created or truncated the file
storage_unavailable ==
    /\ pc = "log"
    /\ sentiment_score \in DOMAIN emotion_mapping
    /\ \E t \in now..MaxClock :
        /\ now' = t
        /\ \/ ~logsDir /\ UNCHANGED <<logsDir, files>>
           \/ logsDir' = TRUE /\ UNCHANGED files
           \/ logsDir' = TRUE /\ files' = write_file(files, t, Corrupt)
    /\ raise("OSError")
    /\ UNCHANGED <<username, limit, peer>>

Next ==
    \/ main
    \/ read_input
    \/ generate_farewell_message
    \/ oracle_unavailable
    \/ preprocess_input_with_openai
    \/ get_sentiment_score
    \/ load_context
    \/ is_warning_signal
    \/ synthesize
    \/ log_interaction
    \/ storage_unavailable

Spec == Init /\ [][Next]_vars

(***************************************************************************)
(* Two sessions at once: a second run of the program works on the same     *)
(* logs/ directory and reads the same clock.  The second session is taken  *)
(* at the steps of run_pipeline that read or write the directory.          *)
(***************************************************************************)
mainVars == <<pc, username, user_input, cleaned_input, sentiment_score,
              previous_logs, limit, prompt, response, error, output, riskCalls,
              synthCalls, warning, raw_reply, lastTurn>>

\* what the second session is given: a name, the line of a turn, the
\* oracle's classification
PeerNames == Names \ {""}
PeerInputs == {"scared"}
PeerClassReplies == { <<"1">>, <<"n", "o">>, <<"9">> }

\* main, lines 181-182, in the second session
peer_main ==
    /\ peer.pc = "idle"
    /\ \E name \in PeerNames : peer' = [PeerIdle EXCEPT !.pc = "prompt", !.username = name]
    /\ UNCHANGED <<mainVars, logsDir, files, now>>

\* run_pipeline, lines 157-159, in the second session: the input is
\* classified, the context is read from the directory, the reply is made
peer_generate ==
    /\ peer.pc = "prompt"
    /\ \E line \in PeerInputs, text \in PeerClassReplies, reply \in Replies :
        LET r == load_previous_logs(files, logsDir, peer.username, DefaultLimit)
        IN  IF r.err # "none"
            THEN peer' = [PeerIdle EXCEPT !.pc = "crashed"]
            ELSE peer' = [peer EXCEPT !.pc = "log",
                                      !.user_input = line,
                                      !.sentiment_score =
                                           default_neutral(extract_integer(text)),
                                      !.response = reply]
    /\ UNCHANGED <<mainVars, logsDir, files, now>>

\* the second session ends: the farewell path, or an oracle call that raises
peer_end ==
    /\ peer.pc = "prompt"
    /\ peer' = [PeerIdle EXCEPT !.pc = "done"]
    /\ UNCHANGED <<mainVars, logsDir, files, now>>

\* log_interaction (line 160) in the second session
peer_log_interaction ==
    /\ peer.pc = "log"
    /\ IF peer.sentiment_score \notin DOMAIN emotion_mapping
       THEN /\ peer' = [PeerIdle EXCEPT !.pc = "crashed"]
            /\ UNCHANGED <<logsDir, files, now>>
       ELSE \E t \in now..MaxClock :
            /\ now' = t
            /\ logsDir' = TRUE
            /\ files' = write_file(files, t,
                                   log_data(t, peer.user_input, peer.sentiment_score,
                                            peer.response, peer.username))
            /\ peer' = [PeerIdle EXCEPT !.pc = "prompt", !.username = peer.username]
    /\ UNCHANGED mainVars

PeerNext ==
    \/ peer_main
    \/ peer_generate
    \/ peer_end
    \/ peer_log_interaction

SpecConc == Init /\ [][Next \/ PeerNext]_vars

(***************************************************************************)
(* load_previous_logs applied on its own, to any directory log_interaction *)
(* can leave behind, any name and any limit.                               *)
(***************************************************************************)
\* what log_interaction can have left in the file of second t
FileContents(t) ==
    {Corrupt} \cup
    {log_data(t, input, score, text, name) :
        input \in TurnInputs, score \in {1, 3}, text \in Replies, name \in Names}

\* the content c as found in the file of second t
at_stamp(c, t) == IF c.json THEN [c EXCEPT !.timestamp = t] ELSE c

Stores(S) ==
    UNION {{[f \in T |-> at_stamp(sh[f], f)] : sh \in [T -> FileContents(0)]} :
              T \in SUBSET S}

InitScan ==
    /\ pc = "scan"
    /\ username \in Names
    /\ files \in Stores(0..(MaxFiles - 1))
    /\ logsDir = TRUE
    /\ user_input = ""
    /\ cleaned_input = ""
    /\ sentiment_score = NoneScore
    /\ previous_logs = <<>>
    /\ limit = DefaultLimit
    /\ prompt = ""
    /\ response = ""
    /\ warning = FALSE
    /\ now = 0
    /\ error = "none"
    /\ output = "none"
    /\ riskCalls = 0
    /\ synthCalls = 0
    /\ raw_reply = <<>>
    /\ lastTurn = NoLast
    /\ peer = PeerIdle

\* load_previous_logs(username, limit=k)
call_load_previous_logs ==
    /\ pc = "scan"
    /\ \E k \in 0..MaxLimit :
        /\ limit' = k
        /\ LET r == load_previous_logs(files, logsDir, username, k)
           IN  previous_logs' = r.logs /\ error' = r.err
    /\ pc' = "scanned"
    /\ UNCHANGED <<username, user_input, cleaned_input, sentiment_score, prompt,
                   response, warning, logsDir, files, now, output, riskCalls,
                   synthCalls, raw_reply, lastTurn, peer>>

NextScan == call_load_previous_logs

SpecScan == InitScan /\ [][NextScan]_vars

(***************************************************************************)
(* generate_response applied on its own, to any score run_pipeline can     *)
(* pass (extract_integer gives any natural number), any input and name.    *)
(***************************************************************************)
InitGen ==
    /\ pc = "context"
    /\ username \in Names
    /\ user_input \in TurnInputs
    /\ sentiment_score \in 0..MaxScore
    /\ files \in Stores({0})
    /\ logsDir = TRUE
    /\ cleaned_input = ""
    /\ previous_logs = <<>>
    /\ limit = DefaultLimit
    /\ prompt = ""
    /\ response = ""
    /\ warning = FALSE
    /\ now = 0
    /\ error = "none"
    /\ output = "none"
    /\ riskCalls = 0
    /\ synthCalls = 0
    /\ raw_reply = <<>>
    /\ lastTurn = NoLast
    /\ peer = PeerIdle

NextGen ==
    \/ load_context
    \/ is_warning_signal
    \/ synthesize
    \/ oracle_unavailable

SpecGen == InitGen /\ [][NextGen]_vars

(***************************************************************************)
(* Properties.                                                             *)
(***************************************************************************)
NegativeSet == {1, 4, 5, 6}

\* the turn has passed classification and is in generate_response or
\* log_interaction
Downstream == pc \in {"context", "risk", "synth", "log"}

\* C1: the category that run_pipeline passes to generate_response and
\* log_interaction is one of the codes 1..7 (the neutral fallback, 3, among
\* them); no out-of-range or non-integer category reaches these stages.
C1_CategoryInRange == Downstream => sentiment_score \in 1..7

\* the files of the directory that hold a record of the identity hash h
Matching(fs, h) == {f \in DOMAIN fs : fs[f].json /\ fs[f].username_hash = h}

\* C2: for every store, identity h and limit k >= 0, recent(h, limit=k)
\* returns at most k records, each the record of a stored file whose
\* identity hash is h, in ascending order of time.
C2_RecentBounded ==
    (pc = "scanned" /\ error = "none" /\ username # "") =>
        /\ Len(previous_logs) <= limit
        /\ \A i \in 1..Len(previous_logs) :
              /\ previous_logs[i].timestamp \in Matching(files, encrypt_name(username))
              /\ previous_logs[i].input = files[previous_logs[i].timestamp].user_input
              /\ previous_logs[i].response = files[previous_logs[i].timestamp].response
        /\ \A i, j \in 1..Len(previous_logs) :
              i < j => previous_logs[i].timestamp < previous_logs[j].timestamp

\* a step in which run_pipeline returns: the turn is completed
TurnCompleted == pc = "log" /\ pc' = "prompt"

\* C3: every turn is logged exactly once: each turn that run_pipeline
\* completes adds exactly one Interaction Record to the store, so that n
\* completed turns leave n records.
C3_EveryTurnLoggedOnce ==
    [][TurnCompleted =>
          Cardinality(DOMAIN files') = Cardinality(DOMAIN files) + 1]_vars

\* C4: a record is immutable once written: no step changes a field of a
\* written record or removes it from the store.
C4_RecordImmutable ==
    [][\A f \in DOMAIN files :
          files[f].json => (f \in DOMAIN files' /\ files'[f] = files[f])]_vars

\* a step in which an oracle call of a turn fails
OracleFails ==
    /\ pc \in {"preprocess", "classify", "risk", "synth"}
    /\ error' = "OracleUnavailable"

\* C5: when an oracle call fails at any step of a turn, the turn aborts
\* without a reply and the log store is left as it was.
C5_OracleFailureWritesNothing ==
    [][OracleFails =>
          /\ files' = files
          /\ logsDir' = logsDir
          /\ output' # "reply"
          /\ pc' \notin {"risk", "synth", "log"}]_vars

\* C5 witness: an oracle call has failed in a session whose store holds a
\* record
C5_Witness ==
    /\ pc = "crashed"
    /\ error = "OracleUnavailable"
    /\ \E f \in DOMAIN files : files[f].json

\* C6: on oracle or storage failure the user receives a generic apology and
\* the session continues: no raw error is shown and the loop of main is never
\* ended by an uncaught error.
C6_NoRawError == pc # "crashed" /\ output # "traceback"

\* C7: when the storage cannot be read as load_previous_logs runs for a
\* named user (the directory does not exist yet), the context is empty and
\* the turn goes on to its response.
C7_ReadFailureDegrades ==
    [][(pc = "context" /\ username # "" /\ ~logsDir) =>
          /\ pc' \in {"risk", "synth"}
          /\ previous_logs' = <<>>]_vars

\* the store without the files json.load cannot parse
WellFormed(fs) == [f \in {g \in DOMAIN fs : fs[g].json} |-> fs[f]]

\* C8: malformed stored records are skipped by the retrieval scan: with
\* corrupt files in the store next to well-formed records of the named
\* user, the context is what the scan returns from the store without the
\* corrupt files, and the turn goes on.
C8_CorruptSkipped ==
    [][(/\ pc = "context" /\ username # "" /\ logsDir
        /\ \E f \in DOMAIN files : ~files[f].json
        /\ Matching(files, encrypt_name(username)) # {}) =>
          /\ pc' \in {"risk", "synth"}
          /\ previous_logs' =
                load_previous_logs(WellFormed(files), TRUE, username, DefaultLimit).logs]_vars

\* C9: the risk detector is invoked only for an emotion of the negative
\* set; when the synthesis request is about to be sent, and after it, the
\* detector has been invoked exactly once for a negative emotion and never
\* for another one.
C9_RiskGate ==
    /\ riskCalls > 0 => sentiment_score \in NegativeSet
    /\ pc = "risk" => sentiment_score \in NegativeSet /\ riskCalls = 0 /\ synthCalls = 0
    /\ pc = "synth" =>
          /\ synthCalls = 0
          /\ riskCalls = IF sentiment_score \in NegativeSet THEN 1 ELSE 0
    /\ pc = "log" =>
          /\ synthCalls = 1
          /\ riskCalls = IF sentiment_score \in NegativeSet THEN 1 ELSE 0

\* C9 witness: a turn of emotion sadness whose reply was synthesized after
\* one invocation of the detector
C9_Witness == pc = "log" /\ sentiment_score = 6 /\ riskCalls = 1 /\ synthCalls = 1

\* C10: the instruction of the synthesis prompt follows the three-way
\* policy: negative emotion and risk detected -> crisis; negative emotion
\* and no risk -> support; any other emotion -> empathy.
C10_InstructionPolicy ==
    pc \in {"synth", "log"} =>
        /\ (sentiment_score \in NegativeSet /\ warning) => full_prompt.instruction = "crisis"
        /\ (sentiment_score \in NegativeSet /\ ~warning) => full_prompt.instruction = "negative"
        /\ sentiment_score \notin NegativeSet => full_prompt.instruction = "empathy"

\* C10 witness: a turn of emotion anger in which the detector saw a risk and
\* the crisis instruction was sent
C10_Witness ==
    /\ pc = "log"
    /\ sentiment_score = 5
    /\ warning
    /\ prompt = "crisis"

C13_AnonymousNoMemory ==
    /\ \A k \in 0..MaxLimit :
          load_previous_logs(files, logsDir, "", k) = [err |-> "none", logs |-> <<>>]
    /\ (username = "" /\ pc \in {"risk", "synth", "log"}) => full_prompt.context = <<>>

\* C13 witness: an anonymous turn is at its synthesis request while the
\* store holds the record of an earlier anonymous turn
C13_Witness ==
    /\ pc = "synth"
    /\ username = ""
    /\ \E f \in DOMAIN files : files[f].json /\ files[f].username_hash = NoneHash

\* C14: the farewell path, taken on a termination phrase, prints the closing
\* message and performs no classification, no risk detection and no log
\* append: the store is unchanged and the session ends with no further turn.
C14_FarewellFrame ==
    [][/\ (pc = "prompt" /\ LowerInput(user_input') \in Termination) =>
             /\ pc' = "farewell"
             /\ files' = files
             /\ logsDir' = logsDir
       /\ pc = "farewell" =>
             /\ files' = files
             /\ logsDir' = logsDir
             /\ sentiment_score' = NoneScore
             /\ raw_reply' = <<>>
             /\ riskCalls' = 0
             /\ pc' \in {"done", "crashed"}
             /\ (pc' = "done" => output' = "farewell")]_vars

\* C14 witness: a session that logged a turn has ended with the closing
\* message
C14_Witness ==
    /\ pc = "done"
    /\ output = "farewell"
    /\ \E f \in DOMAIN files : files[f].json

\* the text holds no digit
NoDigits(text) == \A i \in 1..Len(text) : text[i] \notin Digits

\* C15: a classification response without digits gives the category neutral
\* (3) in one substitution: the classification is not asked again, the
\* response raises no error of its own, and the record logged for the turn
\* carries the neutral label.
C15_NeutralFallback ==
    [][/\ (pc = "classify" /\ pc' # "crashed") =>
             /\ pc' = "context"
             /\ error' = "none"
       /\ (Downstream /\ NoDigits(raw_reply)) =>
             /\ sentiment_score = 3
             /\ pc' \notin {"preprocess", "classify"}
             /\ error' # "KeyError"
       /\ (TurnCompleted /\ NoDigits(raw_reply)) =>
             /\ now' \in DOMAIN files'
             /\ files'[now'].json
             /\ files'[now'].sentiment_score = "neutral"]_vars

\* C15 witness: after a response without digits the reply was synthesized
\* for the category neutral
C15_Witness ==
    /\ pc = "log"
    /\ raw_reply = <<"n", "o">>
    /\ sentiment_score = 3
    /\ synthCalls = 1

\* C16: a turn whose record was not written does not report success:
\* run_pipeline returns the response, and main prints it, only in a step
\* that has written the turn's record.
C16_NoSuccessWithoutRecord ==
    [][pc = "log" =>
          \/ /\ pc' = "prompt"
             /\ output' = "reply"
             /\ now' \in DOMAIN files'
             /\ files'[now'].json
             /\ files'[now'].user_input = user_input
             /\ files'[now'].response = response
             /\ files'[now'].username_hash = username_hash(username)
          \/ /\ pc' = "crashed"
             /\ output' = "traceback"]_vars

\* C16 witness: the append failed after the response was synthesized
C16_Witness == pc = "crashed" /\ error = "OSError"

\* two sessions of distinct named users are running
Concurrent ==
    /\ pc \notin {"init", "done", "crashed"}
    /\ peer.pc \in {"prompt", "log"}
    /\ username # ""
    /\ peer.username # ""
    /\ username # peer.username

\* the user whose session does not take the step
Other == IF peer' # peer THEN username ELSE peer.username

\* C17: with two sessions of distinct users appending to the common store,
\* under any interleaving every record appended by one user is still
\* present and unchanged after a step of the other user's session.
C17_AppendsKeepOtherRecords ==
    [][Concurrent =>
          \A f \in DOMAIN files :
              (files[f].json /\ files[f].username_hash = encrypt_name(Other)) =>
                  (f \in DOMAIN files' /\ files'[f] = files[f])]_vars

\* C18: within a turn the steps come in the order classification, context
\* retrieval, synthesis, logging, and a turn begins only at the prompt, after
\* the turn before it has ended; the store changes only in the logging step,
\* after the response was synthesized, so the context a turn is synthesized
\* with is read from a store without that turn's record.
C18_TurnOrder ==
    [][/\ pc' = "preprocess" => pc = "prompt"
       /\ pc = "preprocess" => pc' \in {"classify", "crashed"}
       /\ pc = "classify" => pc' \in {"context", "crashed"}
       /\ pc = "context" => pc' \in {"risk", "synth", "crashed"}
       /\ pc = "risk" => pc' \in {"synth", "crashed"}
       /\ pc = "synth" => pc' \in {"log", "crashed"}
       /\ pc = "log" => pc' \in {"prompt", "crashed"}
       /\ (files' # files \/ logsDir' # logsDir) => (pc = "log" /\ synthCalls = 1)
       /\ pc' \in {"risk", "synth"} =>
             previous_logs' =
                 load_previous_logs(files, logsDir, username, DefaultLimit).logs]_vars

\* C18 witness: a turn with a context of earlier records has its response
\* and is about to be logged
C18_Witness ==
    /\ pc = "log"
    /\ previous_logs # <<>>
    /\ synthCalls = 1

\* the n greatest elements of S
Top(S, n) == {x \in S : Cardinality({y \in S : y > x}) < n}

\* C19: for any store and any identity h with m matching records,
\* load_previous_logs(h, limit=N) with N >= 1 returns exactly the min(m, N)
\* matching records of greatest timestamp.
C19_MostRecent ==
    (pc = "scanned" /\ username # "" /\ limit >= 1) =>
        /\ error = "none"
        /\ {previous_logs[i].timestamp : i \in 1..Len(previous_logs)} =
              Top(Matching(files, encrypt_name(username)), limit)
        /\ Len(previous_logs) =
              Cardinality(Top(Matching(files, encrypt_name(username)), limit))

\* C19 on the stores all of whose files can be parsed
C19_MostRecentParsable ==
    (\A f \in DOMAIN files : files[f].json) => C19_MostRecent

====
